---------------------------- MODULE Spec2Model ----------------------------
(***************************************************************************)
(* A model of space-cli: src/space_cli.py (SpaceAnalyzer, SpaceCli, main)  *)
(* and src/mcp_server.py (_parse_size and the tool wrappers).              *)
(*                                                                         *)
(* The module holds five specifications over one set of variables, one per *)
(* part of the program:                                                    *)
(*   SpecParse   _parse_size on bounded input strings                      *)
(*   SpecHealth  get_disk_usage / get_disk_health_status / disk_health     *)
(*   SpecScan    get_directory_size on a bounded file tree                 *)
(*   SpecRank    analyze_largest_directories and its MCP wrapper           *)
(*   SpecMain    the exit status of main()                                 *)
(* Each specification leaves the variables of the other parts unchanged.   *)
(***************************************************************************)
EXTENDS Integers, Sequences, FiniteSets, TLC

VARIABLES
    pIn,        \* _parse_size: the argument s (a string, or None)
    pOut,       \* _parse_size: what the call did
    hStat,      \* the answer of os.statvfs(path) for the call
    hOut,       \* disk health: what the call did
    fs,         \* the file tree: path -> node
    listing,    \* the order in which os.listdir(root) enumerates the root
    scanOut,    \* get_directory_size(root): what the call did
    last,       \* the latest ranking call since the file tree last changed
    prev,       \* the ranking call before it, since the file tree last changed
    mIn,        \* main(): command line, environment, what each step will do
    mOut        \* main(): exit status and the steps run

vars == <<pIn, pOut, hStat, hOut, fs, listing, scanOut, last, prev, mIn, mOut>>

parseVars == <<pIn, pOut>>
healthVars == <<hStat, hOut>>
treeVars == <<fs, listing, scanOut, last, prev>>
mainVars == <<mIn, mOut>>

\* Python's None where a string is expected, and where a record is expected
None == "None"
NoneRec == [none |-> TRUE]

(***************************************************************************)
(* Arbitrary-precision naturals.  Python's int is unbounded and            *)
(* 1024**4 does not fit the model checker's integers, so a byte count is a *)
(* sequence of base-1024 digits, most significant first, without leading   *)
(* zeros (zero is the empty sequence).                                     *)
(***************************************************************************)
Base == 1024

RECURSIVE StripZeros(_)
StripZeros(ds) ==
    IF ds # <<>> /\ Head(ds) = 0 THEN StripZeros(Tail(ds)) ELSE ds

RECURSIVE ToDigits(_)
ToDigits(n) ==
    IF n = 0 THEN <<>> ELSE Append(ToDigits(n \div Base), n % Base)

Zeros(k) == [i \in 1..k |-> 0]

\* floor(ds / d) for a digit sequence ds and 0 < d: schoolbook long division.
RECURSIVE LongDiv(_, _, _, _)
LongDiv(ds, d, rem, acc) ==
    IF ds = <<>> THEN StripZeros(acc)
    ELSE LET cur == rem * Base + Head(ds)
         IN  LongDiv(Tail(ds), d, cur % d, Append(acc, cur \div d))

RECURSIVE Pow10(_)
Pow10(k) == IF k = 0 THEN 1 ELSE 10 * Pow10(k - 1)

(***************************************************************************)
(* _parse_size (src/mcp_server.py 46-59)                                   *)
(***************************************************************************)
MaxLen == 3

Alphabet == {"0", "1", "2", ".", "k", "K", "M", "G", "T", "x", " "}

DigitChars == {"0", "1", "2"}

DigitVal(c) == CASE c = "0" -> 0 [] c = "1" -> 1 [] c = "2" -> 2

\* str.upper() on the alphabet
UpperChar(c) == CASE c = "k" -> "K" [] c = "x" -> "X" [] OTHER -> c

upper(s) == [i \in 1..Len(s) |-> UpperChar(s[i])]

\* str.strip(): whitespace removed at both ends
RECURSIVE lstrip(_)
lstrip(s) == IF s # <<>> /\ Head(s) = " " THEN lstrip(Tail(s)) ELSE s

RECURSIVE rstrip(_)
rstrip(s) ==
    IF s # <<>> /\ s[Len(s)] = " " THEN rstrip(SubSeq(s, 1, Len(s) - 1)) ELSE s

strip(s) == rstrip(lstrip(s))

endswith(s, c) == s # <<>> /\ s[Len(s)] = c

\* s[:-1]
DropLast(s) == IF s = <<>> THEN <<>> ELSE SubSeq(s, 1, Len(s) - 1)

RECURSIVE DigitsValue(_)
DigitsValue(s) ==
    IF s = <<>> THEN 0 ELSE 10 * DigitsValue(DropLast(s)) + DigitVal(s[Len(s)])

\* float(t) on the alphabet: surrounding whitespace is ignored; what is left
\* must be digits with at most one '.', and at least one digit.  The value
\* is kept exact, as num / 10^dec.  Anything else raises ValueError.
float(t) ==
    LET u    == strip(t)
        dots == {i \in 1..Len(u) : u[i] = "."}
        ok   == /\ \A i \in 1..Len(u) : u[i] \in DigitChars \cup {"."}
                /\ Cardinality(dots) <= 1
                /\ \E i \in 1..Len(u) : u[i] \in DigitChars
        dot  == IF dots = {} THEN Len(u) + 1 ELSE CHOOSE i \in dots : TRUE
        ip   == SubSeq(u, 1, dot - 1)
        fp   == SubSeq(u, dot + 1, Len(u))
    IN  IF ok
        THEN [err |-> FALSE, num |-> DigitsValue(ip \o fp), dec |-> Len(fp)]
        ELSE [err |-> TRUE, num |-> 0, dec |-> 0]

\* int(f * 1024**k) for f = num / 10^dec: truncation of the exact product
\* (a product by a power of two is exact in binary floating point).
ScaledInt(f, k) == LongDiv(ToDigits(f.num) \o Zeros(k), Pow10(f.dec), 0, <<>>)

Returned(v) == [kind |-> "return", value |-> v, exc |-> None]
Raised(e) == [kind |-> "raise", value |-> <<>>, exc |-> e]
Pending == [kind |-> "pending", value |-> <<>>, exc |-> None]

\* A suffix branch (lines 48-55): float() is called outside any try.
SuffixBranch(s, k) ==
    LET f == float(DropLast(s))
    IN  IF f.err THEN Raised("ValueError") ELSE Returned(ScaledInt(f, k))

\* The last branch (lines 56-59): float() is called inside try/except ValueError.
PlainBranch(s) ==
    LET f == float(s)
    IN  IF f.err THEN Returned(<<>>) ELSE Returned(ScaledInt(f, 0))

\* arg is [none |-> is it None, chars |-> its characters otherwise]
_parse_size(arg) ==
    LET s == upper(strip(IF arg.none \/ arg.chars = <<>> THEN <<"0">> ELSE arg.chars))
    IN  CASE endswith(s, "K") -> SuffixBranch(s, 1)
          [] endswith(s, "M") -> SuffixBranch(s, 2)
          [] endswith(s, "G") -> SuffixBranch(s, 3)
          [] endswith(s, "T") -> SuffixBranch(s, 4)
          [] OTHER -> PlainBranch(s)

Strings(n) == UNION {[1..m -> Alphabet] : m \in 0..n}

Str(chars) == [none |-> FALSE, chars |-> chars]
NoneArg == [none |-> TRUE, chars |-> <<>>]

ParseInputs == {Str(c) : c \in Strings(MaxLen)} \cup {NoneArg}

\* big_files(path, top_n, min_size) calls _parse_size(min_size) (line 112)
ParseSize ==
    /\ pOut.kind = "pending"
    /\ pOut' = _parse_size(pIn)
    /\ UNCHANGED <<pIn, healthVars, treeVars, mainVars>>

NextParse == ParseSize


(***************************************************************************)
(* Disk health (src/space_cli.py 21-61, 142-169; src/mcp_server.py 62-70)  *)
(*                                                                         *)
(* The status strings of the code are written in English here:             *)
(*   "critical" for "严重", "warning" for "警告", "good" for "良好",        *)
(*   "unknown" for "未知".                                                  *)
(***************************************************************************)
MaxBlocks == 100
MaxFrsize == 2

\* SpaceAnalyzer.__init__
warning_threshold == 80
critical_threshold == 90

StatFailed == [ok |-> FALSE, frsize |-> 0, blocks |-> 0, bavail |-> 0]

StatAnswers ==
    {StatFailed} \cup
    {[ok |-> TRUE, frsize |-> f, blocks |-> b, bavail |-> a] :
        f \in 1..MaxFrsize, b \in 0..MaxBlocks, a \in 0..MaxBlocks}

\* os.statvfs answers with f_bavail <= f_blocks
StatPossible(st) == st.bavail <= st.blocks

\* get_disk_usage: any exception (statvfs failing, a division by zero for a
\* file system of zero blocks) is caught and None returned.  usage_percent,
\* the float (used / total) * 100, is kept as the exact fraction num / den.
get_disk_usage(st) ==
    IF ~st.ok THEN NoneRec
    ELSE LET total_bytes == st.frsize * st.blocks
             free_bytes  == st.frsize * st.bavail
             used_bytes  == total_bytes - free_bytes
         IN  IF total_bytes = 0 THEN NoneRec
             ELSE [total |-> total_bytes, used |-> used_bytes, free |-> free_bytes,
                   usage_percent |-> [num |-> used_bytes * 100, den |-> total_bytes]]

\* u >= t for the fraction u and the integer t
FracGeq(u, t) == u.num >= t * u.den

\* a variant with the thresholds exclusive
get_disk_health_status_Exclusive(usage_info) ==
    IF usage_info = NoneRec THEN "unknown"
    ELSE IF usage_info.usage_percent.num > critical_threshold * usage_info.usage_percent.den
         THEN "critical"
    ELSE IF usage_info.usage_percent.num > warning_threshold * usage_info.usage_percent.den
         THEN "warning"
    ELSE "good"

get_disk_health_status(usage_info) ==
    IF usage_info = NoneRec THEN "unknown"
    ELSE IF FracGeq(usage_info.usage_percent, critical_threshold) THEN "critical"
    ELSE IF FracGeq(usage_info.usage_percent, warning_threshold) THEN "warning"
    ELSE "good"

HealthPending == [kind |-> "pending", usage |-> NoneRec, status |-> None]

\* the MCP tool disk_health(path)
DiskHealth ==
    /\ hOut.kind = "pending"
    /\ LET usage_info == get_disk_usage(hStat)
       IN  hOut' = [kind |-> "tool", usage |-> usage_info,
                    status |-> get_disk_health_status(usage_info)]
    /\ UNCHANGED <<hStat, parseVars, treeVars, mainVars>>

\* SpaceCli.print_disk_health(path): returns before classifying when there
\* is no usage record
PrintDiskHealth ==
    /\ hOut.kind = "pending"
    /\ LET usage_info == get_disk_usage(hStat)
       IN  hOut' = [kind |-> "cli", usage |-> usage_info,
                    status |-> IF usage_info = NoneRec THEN None
                               ELSE get_disk_health_status(usage_info)]
    /\ UNCHANGED <<hStat, parseVars, treeVars, mainVars>>

NextHealth == DiskHealth \/ PrintDiskHealth

(***************************************************************************)
(* main() (src/space_cli.py 240-328)                                       *)
(***************************************************************************)
\* What parser.parse_args() does with the command line: it returns the
\* arguments ("parsed"), or leaves through SystemExit: status 2 after a usage
\* error (an unknown option, a -n value that is no integer), status 0 after
\* --version or --help.
ArgvKinds == {"parsed", "usage_error", "version", "help"}

\* What a report step does when main() runs it: it returns, an exception
\* escapes it, or the user interrupts it (KeyboardInterrupt).  For
\* export_report, "save_failed" is a failure to write the file, which
\* export_report catches itself (lines 232-237).
StepOutcomes == {"ok", "raise", "interrupt"}

StepNames == <<"system_info", "disk_health", "directories", "export">>

MainInputs ==
    [argv : ArgvKinds, path_exists : BOOLEAN, directories_only : BOOLEAN,
     health_only : BOOLEAN, export : BOOLEAN,
     system_info : StepOutcomes, disk_health : StepOutcomes,
     directories : StepOutcomes, export_step : StepOutcomes \cup {"save_failed"}]

\* The steps main() would run, in order, for the parsed arguments (lines 304-317)
PlannedSteps(in) ==
    (IF ~in.directories_only THEN <<"system_info", "disk_health">> ELSE <<>>)
    \o (IF ~in.health_only THEN <<"directories">> ELSE <<>>)
    \o (IF in.export THEN <<"export">> ELSE <<>>)

StepOutcome(in, step) ==
    CASE step = "system_info" -> in.system_info
      [] step = "disk_health" -> in.disk_health
      [] step = "directories" -> in.directories
      [] step = "export" -> IF in.export_step = "save_failed" THEN "ok"
                            ELSE in.export_step

\* The try block: steps run until one does not return.
RECURSIVE RunSteps(_, _, _)
RunSteps(in, todo, done) ==
    IF todo = <<>> THEN [ran |-> done, code |-> 0]
    ELSE LET o == StepOutcome(in, Head(todo))
         IN  IF o = "ok" THEN RunSteps(in, Tail(todo), Append(done, Head(todo)))
             ELSE [ran |-> Append(done, Head(todo)), code |-> 1]

\* a variant without the sys.exit(1) of line 297: main() goes on
ExitOnMissingPath_GoesOn(in) == RunSteps(in, PlannedSteps(in), <<>>)

\* lines 295-297
ExitOnMissingPath(in) == [ran |-> <<>>, code |-> 1]

main(in) ==
    CASE in.argv = "usage_error" -> [ran |-> <<>>, code |-> 2]
      [] in.argv \in {"version", "help"} -> [ran |-> <<>>, code |-> 0]
      [] OTHER -> IF ~in.path_exists THEN ExitOnMissingPath(in)
                  ELSE RunSteps(in, PlannedSteps(in), <<>>)

MainPending == [kind |-> "pending", ran |-> <<>>, code |-> 0]

Main ==
    /\ mOut.kind = "pending"
    /\ LET r == main(mIn)
       IN  mOut' = [kind |-> "exited", ran |-> r.ran, code |-> r.code]
    /\ UNCHANGED <<mIn, parseVars, healthVars, treeVars>>

NextMain == Main

(***************************************************************************)
(* The file tree.  A name is a sequence of characters, a path a sequence   *)
(* of names (os.path.join appends a name).  A node is a file or a          *)
(* directory.  ok says whether the call the program makes on it succeeds:  *)
(* os.path.getsize (a stat) for a file, os.listdir or os.scandir for a     *)
(* directory.  readable says whether its content can be read (the read     *)
(* permission): a directory that is not readable cannot be listed; a file  *)
(* that is not readable can still be stat-ed when the directory holding it *)
(* can be searched, and a file whose stat fails (it was removed, it is a   *)
(* dangling link, its directory cannot be searched) cannot be read.        *)
(***************************************************************************)
MaxSize == 2

Absent == [kind |-> "none", size |-> 0, ok |-> FALSE, readable |-> FALSE, kids |-> <<>>]
File(s, o, rd) == [kind |-> "file", size |-> s, ok |-> o, readable |-> rd, kids |-> <<>>]
Dir(o, k) == [kind |-> "dir", size |-> 0, ok |-> o, readable |-> o, kids |-> k]

\* a file as the program finds it: readable; unreadable, its size known;
\* or with no size to be had
Plain(s) == File(s, TRUE, TRUE)
Unreadable(s) == File(s, TRUE, FALSE)
Unstatable(s) == File(s, FALSE, FALSE)

\* the entries that exist, out of a choice per name that may be Absent
Present(k) == [n \in {m \in DOMAIN k : k[m] # Absent} |-> k[n]]

RootName == <<"r">>
root_path == <<RootName>>

join(path, item) == Append(path, item)

RECURSIVE Descend(_, _)
Descend(node, rest) ==
    IF rest = <<>> THEN node
    ELSE IF node.kind # "dir" \/ Head(rest) \notin DOMAIN node.kids THEN Absent
    ELSE Descend(node.kids[Head(rest)], Tail(rest))

\* the node at a path of the tree f (the node of root_path)
Resolve(f, path) ==
    IF path = <<>> \/ Head(path) # RootName THEN Absent
    ELSE Descend(f, Tail(path))

RECURSIVE SetToSeq(_)
SetToSeq(S) ==
    IF S = {} THEN <<>>
    ELSE LET x == CHOOSE y \in S : TRUE IN <<x>> \o SetToSeq(S \ {x})

\* os.path.isdir
isdir(f, path) == Resolve(f, path).kind = "dir"

\* os.path.getsize: the size, or OSError
getsize(f, path) ==
    LET node == Resolve(f, path)
    IN  IF node.kind = "file" /\ node.ok THEN [err |-> FALSE, size |-> node.size]
        ELSE [err |-> TRUE, size |-> 0]

\* os.scandir as os.walk uses it: the entries, or an error that os.walk (no
\* onerror given) swallows
scandir(f, path) ==
    LET node == Resolve(f, path)
    IN  IF node.kind = "dir" /\ node.ok
        THEN [err |-> FALSE, names |-> SetToSeq(DOMAIN node.kids)]
        ELSE [err |-> TRUE, names |-> <<>>]

SelectNames(f, dirpath, names, kind) ==
    SelectSeq(names, LAMBDA n : (Resolve(f, join(dirpath, n)).kind = "dir") = (kind = "dir"))

\* os.walk(top), top-down: the sequence of (dirpath, dirnames, filenames).
\* A directory that cannot be listed yields nothing and is not descended.
RECURSIVE os_walk(_, _)
os_walk(f, stack) ==
    IF stack = <<>> THEN <<>>
    ELSE LET top == Head(stack)
             sd  == scandir(f, top)
         IN  IF sd.err THEN os_walk(f, Tail(stack))
             ELSE LET dirs    == SelectNames(f, top, sd.names, "dir")
                      nondirs == SelectNames(f, top, sd.names, "file")
                      subs    == [i \in 1..Len(dirs) |-> join(top, dirs[i])]
                  IN  <<[dirpath |-> top, dirnames |-> dirs, filenames |-> nondirs]>>
                      \o os_walk(f, subs \o Tail(stack))

\* a variant without the inner try: the OSError leaves the loops
AddFile_Uncaught(f, total, filepath) ==
    LET r == getsize(f, filepath)
    IN  IF r.err THEN [err |-> TRUE, total |-> total]
        ELSE [err |-> FALSE, total |-> total + r.size]

\* lines 78-82: one file of the inner loop; an OSError is caught and the
\* file skipped
AddFile(f, total, filepath) ==
    LET r == getsize(f, filepath)
    IN  IF r.err THEN [err |-> FALSE, total |-> total]
        ELSE [err |-> FALSE, total |-> total + r.size]

\* lines 75-82: the two loops; an error that leaves AddFile ends them
RECURSIVE SumFiles(_, _, _, _)
SumFiles(f, dirpath, filenames, acc) ==
    IF filenames = <<>> \/ acc.err THEN acc
    ELSE SumFiles(f, dirpath, Tail(filenames),
                  AddFile(f, acc.total, join(dirpath, Head(filenames))))

RECURSIVE SumWalk(_, _, _)
SumWalk(f, triples, acc) ==
    IF triples = <<>> \/ acc.err THEN acc
    ELSE SumWalk(f, Tail(triples),
                 SumFiles(f, Head(triples).dirpath, Head(triples).filenames, acc))

\* get_directory_size: the outer except (lines 83-85) passes on an OSError
\* and the total counted so far is returned
get_directory_size(f, path) ==
    LET acc == SumWalk(f, os_walk(f, <<path>>), [err |-> FALSE, total |-> 0])
    IN  [err |-> FALSE, total |-> acc.total]

(***************************************************************************)
(* SpecScan: get_directory_size(root_path) on every tree of a fixed shape: *)
(* r holds f, g, d; r/d holds f, d; r/d/d holds f.  Every slot is absent,  *)
(* a file (of any size; readable, unreadable, or without a size to be had) *)
(* or a directory (listable or not); the root may also be missing or a     *)
(* file.                                                                   *)
(***************************************************************************)
nF == <<"f">>
nG == <<"g">>
nD == <<"d">>

Files == UNION {{Plain(s), Unreadable(s), Unstatable(s)} : s \in 1..MaxSize}

Leaves == {Absent} \cup Files \cup {Dir(o, <<>>) : o \in BOOLEAN}

Level2 ==
    {Absent} \cup Files
    \cup {Dir(o, Present(nF :> x)) : o \in BOOLEAN, x \in Leaves}

Level1 ==
    {Absent} \cup Files
    \cup {Dir(o, Present((nF :> x) @@ (nD :> y))) :
            o \in BOOLEAN, x \in Leaves, y \in Level2}

ScanTrees ==
    {Absent} \cup Files
    \cup {Dir(o, Present((nF :> x) @@ (nG :> y) @@ (nD :> z))) :
            o \in BOOLEAN, x \in Leaves, y \in Leaves, z \in Level1}

ScanPending == [kind |-> "pending", total |-> 0]

NoCall == [kind |-> "none"]

GetDirectorySize ==
    /\ scanOut.kind = "pending"
    /\ LET r == get_directory_size(fs, root_path)
       IN  scanOut' = [kind |-> IF r.err THEN "raise" ELSE "return", total |-> r.total]
    /\ UNCHANGED <<fs, listing, last, prev, parseVars, healthVars, mainVars>>

NextScan == GetDirectorySize

(***************************************************************************)
(* analyze_largest_directories (src/space_cli.py 88-118) and its callers   *)
(***************************************************************************)
nTrash == <<".", "T", "r", "a", "s", "h">>
nLocalized == <<".", "l", "o", "c", "a", "l", "i", "z", "e", "d">>
nCache == <<".", "c", "a", "c", "h", "e">>
nA == <<"a">>
nB == <<"b">>

\* line 100: the hidden names that are not skipped
AllowList == {nTrash, nLocalized}

startswith(item, c) == item # <<>> /\ Head(item) = c

\* a variant that skips every hidden name
IsSkippedName_NoAllowList(item) == startswith(item, ".")

\* line 100: the entry is skipped before it is looked at
IsSkippedName(item) == startswith(item, ".") /\ item \notin AllowList

\* os.listdir(path): the names in the order the directory gives them, or an
\* OSError (no such directory, not a directory, permission denied)
listdir(f, path, order) ==
    LET node == Resolve(f, path)
    IN  IF node.kind = "dir" /\ node.ok THEN [err |-> FALSE, names |-> order]
        ELSE [err |-> TRUE, names |-> <<>>]

NoSizes == [sizes |-> <<>>, scanned |-> <<>>, skipped |-> <<>>]

\* lines 103-110: one eligible entry; scanned records the call of
\* get_directory_size, skipped the path printed by the except branch
ScanChild(f, acc, item_path) ==
    IF isdir(f, item_path)
    THEN LET r == get_directory_size(f, item_path)
         IN  IF r.err
             THEN [acc EXCEPT !.scanned = Append(@, item_path),
                              !.skipped = Append(@, item_path)]
             ELSE [acc EXCEPT !.scanned = Append(@, item_path),
                              !.sizes = Append(@, [path |-> item_path, size |-> r.total])]
    ELSE acc

\* lines 96-110: the loop over the listing
RECURSIVE ScanChildren(_, _, _, _)
ScanChildren(f, root, items, acc) ==
    IF items = <<>> THEN acc
    ELSE LET item == Head(items)
         IN  IF IsSkippedName(item) THEN ScanChildren(f, root, Tail(items), acc)
             ELSE ScanChildren(f, root, Tail(items), ScanChild(f, acc, join(root, item)))

\* list.sort(key=size, reverse=True) inserts x after every entry that is
\* not smaller: the sort is stable, entries of equal size keep their order
RECURSIVE InsertDesc(_, _)
InsertDesc(sorted, x) ==
    IF sorted = <<>> THEN <<x>>
    ELSE IF Head(sorted).size >= x.size THEN <<Head(sorted)>> \o InsertDesc(Tail(sorted), x)
    ELSE <<x>> \o sorted

RECURSIVE SortBySizeDesc(_)
SortBySizeDesc(s) ==
    IF s = <<>> THEN <<>>
    ELSE InsertDesc(SortBySizeDesc(SubSeq(s, 1, Len(s) - 1)), s[Len(s)])

Min(a, b) == IF a <= b THEN a ELSE b
Max(a, b) == IF a >= b THEN a ELSE b

\* s[:n]: a negative n counts from the end
SliceTo(s, n) ==
    IF n >= 0 THEN SubSeq(s, 1, Min(n, Len(s)))
    ELSE SubSeq(s, 1, Max(0, Len(s) + n))

RankReturn(result, acc, sorted) ==
    [kind |-> "return", exc |-> None, result |-> result, candidates |-> sorted,
     scanned |-> acc.scanned, skipped |-> acc.skipped]

RankRaise(e) ==
    [kind |-> "raise", exc |-> e, result |-> <<>>, candidates |-> <<>>,
     scanned |-> <<>>, skipped |-> <<>>]

\* a variant without the except of line 116: the exception leaves the call
CatchAll_Reraises(r) == r

\* lines 116-118: any exception of the body is printed and [] returned
CatchAll(r) == IF r.kind = "raise" THEN RankReturn(<<>>, NoSizes, <<>>) ELSE r

\* lines 94-114, the body of the try
AnalyzeBody(f, order, root, top_n) ==
    LET ld == listdir(f, root, order)
    IN  IF ld.err THEN RankRaise("OSError")
        ELSE LET acc    == ScanChildren(f, root, ld.names, NoSizes)
                 sorted == SortBySizeDesc(acc.sizes)
             IN  RankReturn(SliceTo(sorted, top_n), acc, sorted)

analyze_largest_directories(f, order, root, top_n) ==
    CatchAll(AnalyzeBody(f, order, root, top_n))

\* line 88: the parameters of analyze_largest_directories, and top_n's default
AnalyzeParams == {"root_path", "max_depth", "top_n"}
DefaultTopN == 20

\* mcp_server.py 77-85: the keyword arguments largest_directories passes
McpKeywords == {"top_n", "index", "use_index", "reindex", "index_ttl_hours", "prompt"}

\* A call with keywords: Python raises TypeError, before the body runs, for a
\* keyword that is no parameter
CallAnalyze(f, order, root, top_n, keywords) ==
    IF keywords \subseteq AnalyzeParams
    THEN analyze_largest_directories(f, order, root, top_n)
    ELSE RankRaise("TypeError")

(***************************************************************************)
(* SpecRank: ranking calls on a root that holds .Trash, .cache, a and b.   *)
(* An entry is absent or, depending on its name, a file, a directory that  *)
(* cannot be listed, or a directory holding one file (which, under a, may  *)
(* have no size to be had); the root may also be missing, a file, or not   *)
(* listable.                                                               *)
(* The file tree does not change during a behaviour: last and prev are two *)
(* calls with no change between them.                                      *)
(***************************************************************************)
NegTop == 2
MaxTop == 3

TopNs == (0 - NegTop)..MaxTop

Holding(x) == Dir(TRUE, Present(nF :> x))
Denied == Dir(FALSE, Present(nF :> Plain(1)))
Sized == {Holding(Plain(s)) : s \in 1..MaxSize}

TrashOptions == {Absent, Denied} \cup Sized
CacheOptions == {Absent, Holding(Plain(MaxSize))}
AOptions == {Absent, Plain(1), Denied, Holding(Unstatable(1))} \cup Sized
BOptions == {Absent, Plain(1)} \cup Sized

RankTrees ==
    {Absent, Plain(1), Dir(FALSE, <<>>)}
    \cup {Dir(TRUE, Present((nTrash :> t) @@ (nCache :> c) @@ (nA :> a) @@ (nB :> b))) :
            t \in TrashOptions, c \in CacheOptions, a \in AOptions, b \in BOptions}

\* the orders in which a directory may enumerate the names S
Orders(S) ==
    {s \in [1..Cardinality(S) -> S] : \A i, j \in 1..Cardinality(S) : s[i] = s[j] => i = j}

EntryNames(f) == IF f.kind = "dir" THEN DOMAIN f.kids ELSE {}

\* what a later call can be compared with: the sizes a call measured
Summary(call) ==
    IF call.kind = "none" THEN NoCall
    ELSE [kind |-> call.kind,
          sizes |-> {call.candidates[i] : i \in 1..Len(call.candidates)}]

Called(r, via, top_n, use_index) ==
    [kind |-> r.kind, exc |-> r.exc, result |-> r.result, candidates |-> r.candidates,
     scanned |-> r.scanned, skipped |-> r.skipped,
     via |-> via, top_n |-> top_n, use_index |-> use_index]

\* SpaceCli.print_largest_directories(path, top_n) (line 177)
PrintLargestDirectories ==
    /\ \E top_n \in TopNs :
          last' = Called(CallAnalyze(fs, listing, root_path, top_n, {"top_n"}),
                         "cli", top_n, "absent")
    /\ prev' = Summary(last)
    /\ UNCHANGED <<fs, listing, scanOut, parseVars, healthVars, mainVars>>

\* SpaceCli.export_report(output_file, path) (line 211): top_n is the default
ExportReport ==
    /\ last' = Called(CallAnalyze(fs, listing, root_path, DefaultTopN, {}),
                      "export", DefaultTopN, "absent")
    /\ prev' = Summary(last)
    /\ UNCHANGED <<fs, listing, scanOut, parseVars, healthVars, mainVars>>

\* the MCP tool largest_directories(path, top_n, use_index, reindex, index_ttl)
\* (mcp_server.py 73-89), called with use_index given and the rest at their
\* defaults
McpLargestDirectories ==
    /\ \E use_index \in {"true", "false"} :
          last' = Called(CallAnalyze(fs, listing, root_path, DefaultTopN, McpKeywords),
                         "mcp", DefaultTopN, use_index)
    /\ prev' = Summary(last)
    /\ UNCHANGED <<fs, listing, scanOut, parseVars, healthVars, mainVars>>

NextRank == PrintLargestDirectories \/ ExportReport \/ McpLargestDirectories

(***************************************************************************)
(* The specifications.  Each starts one part of the program on its inputs  *)
(* and holds the variables of the other parts at rest.                     *)
(***************************************************************************)
InitP ==
    /\ pIn \in ParseInputs /\ pOut = Pending
    /\ hStat = StatFailed /\ hOut = HealthPending
    /\ fs = Absent /\ listing = <<>> /\ scanOut = ScanPending
    /\ last = NoCall /\ prev = NoCall
    /\ mIn = NoneRec /\ mOut = MainPending

InitH ==
    /\ pIn = NoneArg /\ pOut = Pending
    /\ hStat \in {st \in StatAnswers : StatPossible(st)} /\ hOut = HealthPending
    /\ fs = Absent /\ listing = <<>> /\ scanOut = ScanPending
    /\ last = NoCall /\ prev = NoCall
    /\ mIn = NoneRec /\ mOut = MainPending

InitS ==
    /\ pIn = NoneArg /\ pOut = Pending
    /\ hStat = StatFailed /\ hOut = HealthPending
    /\ fs \in ScanTrees /\ listing = <<>> /\ scanOut = ScanPending
    /\ last = NoCall /\ prev = NoCall
    /\ mIn = NoneRec /\ mOut = MainPending

InitM ==
    /\ pIn = NoneArg /\ pOut = Pending
    /\ hStat = StatFailed /\ hOut = HealthPending
    /\ fs = Absent /\ listing = <<>> /\ scanOut = ScanPending
    /\ last = NoCall /\ prev = NoCall
    /\ mIn \in MainInputs /\ mOut = MainPending

SpecParse == InitP /\ [][NextParse]_vars
SpecHealth == InitH /\ [][NextHealth]_vars
SpecScan == InitS /\ [][NextScan]_vars
SpecMain == InitM /\ [][NextMain]_vars

InitR ==
    /\ pIn = NoneArg /\ pOut = Pending
    /\ hStat = StatFailed /\ hOut = HealthPending
    /\ fs \in RankTrees /\ listing \in Orders(EntryNames(fs)) /\ scanOut = ScanPending
    /\ last = NoCall /\ prev = NoCall
    /\ mIn = NoneRec /\ mOut = MainPending

SpecRank == InitR /\ [][NextRank]_vars

(***************************************************************************)
(* Properties of _parse_size (SpecParse)                                   *)
(***************************************************************************)
Chars(arg) == IF arg.none \/ arg.chars = <<>> THEN <<"0">> ELSE arg.chars

SuffixPower(c) == CASE c = "K" -> 1 [] c = "M" -> 2 [] c = "G" -> 3 [] c = "T" -> 4 [] OTHER -> 0

\* What the claim expects for an argument: the number before a K, M, G or T
\* times the power of 1024, the number itself without a suffix, 0 for
\* whatever is no number.
ExpectedSize(arg) ==
    LET s   == upper(strip(Chars(arg)))
        k   == IF s = <<>> THEN 0 ELSE SuffixPower(s[Len(s)])
        num == float(IF k > 0 THEN DropLast(s) ELSE s)
    IN  IF num.err THEN <<>> ELSE ScaledInt(num, k)

\* C5: for every input string _parse_size returns an integer and never
\* aborts: a number followed by K, M, G or T is multiplied by 1024, 1024^2,
\* 1024^3 or 1024^4 ("1K" -> 1024, "2M" -> 2097152, "1G" -> 1073741824),
\* "0" -> 0, and every unparseable input, also one that ends in K, M, G or T
\* after something that is no number ("xK", "K"), yields 0.
C5_ParseSizeNeverAborts ==
    pOut.kind # "pending" =>
        /\ pOut.kind = "return"
        /\ pOut.value = ExpectedSize(pIn)
        /\ pIn = Str(<<"1", "K">>) => pOut.value = ToDigits(1024)
        /\ pIn = Str(<<"2", "M">>) => pOut.value = ToDigits(2097152)
        /\ pIn = Str(<<"1", "G">>) => pOut.value = ToDigits(1073741824)
        /\ pIn = Str(<<"0">>) => pOut.value = <<>>
        /\ pIn \in {Str(<<"x", "K">>), Str(<<"K">>), Str(<<"x">>)} => pOut.value = <<>>

(***************************************************************************)
(* Properties of the disk health classification (SpecHealth)               *)
(***************************************************************************)
\* the usage percentage of the statvfs answer is at least t
UsageAtLeast(st, t) == 100 * (st.blocks - st.bavail) >= t * st.blocks

HasUsage(st) == st.ok /\ st.frsize * st.blocks > 0

\* C4: a usage of at least 90 percent is classified critical, of at least 80
\* and less than 90 warning, of less than 80 good; a missing usage record is
\* classified unknown by get_disk_health_status and never as one of the three.
C4_HealthClassification ==
    hOut.kind # "pending" =>
        IF HasUsage(hStat)
        THEN /\ UsageAtLeast(hStat, 90) => hOut.status = "critical"
             /\ UsageAtLeast(hStat, 80) /\ ~UsageAtLeast(hStat, 90) => hOut.status = "warning"
             /\ ~UsageAtLeast(hStat, 80) => hOut.status = "good"
        ELSE /\ hOut.status \notin {"critical", "warning", "good"}
             /\ hOut.kind = "tool" => hOut.status = "unknown"

\* a disk used to exactly 80 percent has been classified, as warning
C4_Witness ==
    /\ hOut.kind = "tool"
    /\ hStat.blocks > 0
    /\ 100 * (hStat.blocks - hStat.bavail) = 80 * hStat.blocks
    /\ hOut.status = "warning"

(***************************************************************************)
(* Properties of main() (SpecMain)                                         *)
(***************************************************************************)
\* an exception or an interrupt leaves one of the steps main() is to run
Escapes(in) ==
    \E i \in 1..Len(PlannedSteps(in)) : StepOutcome(in, PlannedSteps(in)[i]) # "ok"

\* C9 as claimed: every run of main() ends with exit code 1 when the input
\* path does not exist or an error escapes a report step, and with 0 in
\* every other run; with a nonexistent path no report step is run.
C9_ExitCodeEveryRun ==
    mOut.kind = "exited" =>
        /\ mOut.code = (IF ~mIn.path_exists \/ Escapes(mIn) THEN 1 ELSE 0)
        /\ ~mIn.path_exists => mOut.ran = <<>>

\* C9 as amended: the claim holds of the runs whose command line parse_args
\* accepts; a rejected command line ends with status 2, --version and --help
\* with status 0, all three before the path is looked at or a step run.
C9_ExitCodeParsedRuns ==
    mOut.kind = "exited" =>
        /\ mIn.argv = "parsed" =>
              /\ mOut.code = (IF ~mIn.path_exists \/ Escapes(mIn) THEN 1 ELSE 0)
              /\ ~mIn.path_exists => mOut.ran = <<>>
        /\ mIn.argv = "usage_error" => mOut.code = 2 /\ mOut.ran = <<>>
        /\ mIn.argv \in {"version", "help"} => mOut.code = 0 /\ mOut.ran = <<>>

\* a run on a missing path, with steps that would have failed, exited with 1
\* before any of them
C9_Witness ==
    /\ mOut.kind = "exited"
    /\ mIn.argv = "parsed"
    /\ ~mIn.path_exists
    /\ mIn.system_info = "raise"
    /\ ~mIn.directories_only
    /\ mOut.code = 1
    /\ mOut.ran = <<>>

(***************************************************************************)
(* Properties of get_directory_size (SpecScan)                             *)
(***************************************************************************)
ScanPaths ==
    <<join(root_path, nF), join(root_path, nG), join(root_path, nD),
      join(join(root_path, nD), nF), join(join(root_path, nD), nD),
      join(join(join(root_path, nD), nD), nF)>>

\* the directories above path, the root included
Above(path) == {SubSeq(path, 1, k) : k \in 1..(Len(path) - 1)}

\* no directory above path is unreadable
Reachable(f, path) ==
    \A d \in Above(path) : Resolve(f, d).kind = "dir" /\ Resolve(f, d).readable

SumOver(f, Counts(_, _)) ==
    LET size(path) == IF Counts(f, path) THEN Resolve(f, path).size ELSE 0
    IN  size(ScanPaths[1]) + size(ScanPaths[2]) + size(ScanPaths[3])
        + size(ScanPaths[4]) + size(ScanPaths[5]) + size(ScanPaths[6])

\* a readable file no directory above which is unreadable
ReadableFile(f, path) ==
    Resolve(f, path).kind = "file" /\ Resolve(f, path).readable /\ Reachable(f, path)

\* a file whose size can be had, no directory above which is unreadable
StatableFile(f, path) ==
    Resolve(f, path).kind = "file" /\ Resolve(f, path).ok /\ Reachable(f, path)

\* C6 as claimed: whatever files and subdirectories of the tree are
\* unreadable, get_directory_size does not raise and returns exactly the sum
\* of the sizes of the files that are readable and not inside an unreadable
\* subdirectory.
C6_SumOfReadableFiles ==
    scanOut.kind # "pending" =>
        /\ scanOut.kind = "return"
        /\ scanOut.total = SumOver(fs, ReadableFile)

\* C6 as amended: get_directory_size does not raise and returns exactly the
\* sum of the sizes of the files whose size os.path.getsize can give (a file
\* without read permission among them) and that are not inside a
\* subdirectory that cannot be listed.
C6_SumOfStatableFiles ==
    scanOut.kind # "pending" =>
        /\ scanOut.kind = "return"
        /\ scanOut.total = SumOver(fs, StatableFile)

\* the root holds two readable files and a permission-denied subdirectory
\* that holds a file, and the scan returned the sum of the two files
C6_Witness ==
    /\ scanOut.kind = "return"
    /\ fs.kind = "dir" /\ fs.ok
    /\ DOMAIN fs.kids = {nF, nG, nD}
    /\ fs.kids[nF] = Plain(1)
    /\ fs.kids[nG] = Plain(2)
    /\ fs.kids[nD].kind = "dir" /\ ~fs.kids[nD].ok
    /\ nF \in DOMAIN fs.kids[nD].kids
    /\ fs.kids[nD].kids[nF] = Plain(2)
    /\ scanOut.total = 3

(***************************************************************************)
(* Properties of the directory ranking (SpecRank)                          *)
(***************************************************************************)
\* the code point of a character of the names and paths
Ord(c) ==
    CASE c = "." -> 46 [] c = "/" -> 47 [] c = "T" -> 84
      [] c = "a" -> 97 [] c = "b" -> 98 [] c = "c" -> 99 [] c = "d" -> 100
      [] c = "e" -> 101 [] c = "f" -> 102 [] c = "g" -> 103 [] c = "h" -> 104
      [] c = "i" -> 105 [] c = "l" -> 108 [] c = "o" -> 111 [] c = "r" -> 114
      [] c = "s" -> 115 [] c = "z" -> 122

\* the path as the string the program holds: /r/a
RECURSIVE PathStr(_)
PathStr(path) ==
    IF path = <<>> THEN <<>> ELSE <<"/">> \o Head(path) \o PathStr(Tail(path))

\* a < b in the lexicographic order of strings
RECURSIVE LexLess(_, _)
LexLess(a, b) ==
    IF b = <<>> THEN FALSE
    ELSE IF a = <<>> THEN TRUE
    ELSE IF Head(a) = Head(b) THEN LexLess(Tail(a), Tail(b))
    ELSE Ord(Head(a)) < Ord(Head(b))

\* the children of the root the ranking is to measure: the directories whose
\* name does not start with '.' or is on the allow-list
EligibleNames(f) ==
    IF f.kind = "dir" /\ f.ok
    THEN {n \in DOMAIN f.kids :
            f.kids[n].kind = "dir" /\ (n[1] # "." \/ n \in {nTrash, nLocalized})}
    ELSE {}

Eligible(f) == {join(root_path, n) : n \in EligibleNames(f)}

PathsOf(entries) == {entries[i].path : i \in 1..Len(entries)}

Range(s) == {s[i] : i \in 1..Len(s)}

NoRepeat(s) == \A i, j \in 1..Len(s) : s[i] = s[j] => i = j

\* the call is one the analyzer's signature allows (the CLI's calls)
Analyzed == last.kind # "none" /\ last.via # "mcp"

\* C1: the ranking returned is sorted non-increasing by size, and two
\* adjacent entries of equal size are in ascending lexicographic order of
\* their paths, whatever the order of the directory listing.
C1_SortedTiesByPath ==
    Analyzed /\ last.kind = "return" =>
        \A i \in 1..(Len(last.result) - 1) :
            /\ last.result[i].size >= last.result[i + 1].size
            /\ last.result[i].size = last.result[i + 1].size =>
                  LexLess(PathStr(last.result[i].path), PathStr(last.result[i + 1].path))

\* C2: for every integer top_n and every root with k eligible child
\* directories the ranking returns, without error, at most top_n entries:
\* none for top_n <= 0, exactly k for top_n >= k.
C2_LengthAtMostTopN ==
    Analyzed =>
        /\ last.kind = "return"
        /\ Len(last.result) <= Max(last.top_n, 0)
        /\ last.top_n <= 0 => last.result = <<>>
        /\ last.top_n >= Cardinality(Eligible(fs)) =>
              Len(last.result) = Cardinality(Eligible(fs))

\* C3: of two ranking calls on the same root with no file system change
\* between them and the index not switched off, the second, when it returns,
\* has called the size scanner zero times and returns the sizes of the first.
C3_SecondCallScansNothing ==
    prev.kind = "return" /\ last.kind = "return" /\ last.use_index # "false" =>
        /\ last.scanned = <<>>
        /\ Range(last.candidates) = prev.sizes

\* C7: a child whose scan fails entirely (a directory that cannot be
\* traversed at all) is left out of the ranking and reported as skipped;
\* every other child appears with its size.
C7_FailedChildSkipped ==
    Analyzed /\ last.kind = "return" =>
        \A path \in Eligible(fs) :
            IF Resolve(fs, path).ok
            THEN path \in PathsOf(last.candidates)
            ELSE path \notin PathsOf(last.candidates) /\ path \in Range(last.skipped)

RootListable == fs.kind = "dir" /\ fs.ok

C10_OnlyEligibleChildren ==
    Analyzed /\ last.kind = "return" =>
        /\ PathsOf(last.result) \subseteq Eligible(fs)
        /\ NoRepeat(last.result)
        /\ \A i, j \in 1..Len(last.result) :
              last.result[i].path = last.result[j].path => i = j
        /\ Range(last.scanned) = Eligible(fs)
        /\ NoRepeat(last.scanned)
        /\ PathsOf(last.candidates) = Eligible(fs)

\* a root holding .Trash, .cache, a and b, all directories, was ranked:
\* .Trash, a and b were scanned and returned, .cache was not
C10_Witness ==
    /\ Analyzed /\ last.kind = "return"
    /\ RootListable
    /\ \A n \in {nTrash, nCache, nA, nB} : n \in DOMAIN fs.kids /\ fs.kids[n].kind = "dir"
    /\ PathsOf(last.result) = {join(root_path, nTrash), join(root_path, nA), join(root_path, nB)}
    /\ join(root_path, nCache) \notin Range(last.scanned)

=============================================================================
